---- MODULE Spec2Model ----
(***************************************************************************)
(* Token lifecycle of the tattoo-agency API client: the axios instance of  *)
(* src/lib/axios.ts (request interceptor, response interceptor with the    *)
(* 401 refresh flow), the auth store it reads and writes, and the callers  *)
(* that issue requests through it (Login.onSubmit, the resource pages,     *)
(* useAuth.logout).                                                        *)
(*                                                                         *)
(* JavaScript runs the handlers on one event loop: each action below is    *)
(* one run-to-completion step between two network suspension points.       *)
(***************************************************************************)
EXTENDS Naturals, Integers, Sequences, FiniteSets, TLC

\* ------------------------------------------------------------------ bounds
\* Number of requests the callers issue through axiosInstance.
NumReqs == 2

Reqs == 1..NumReqs

\* ------------------------------------------------------------------ values
\* undefined / null / a header that is not set.
Absent == "absent"

\* Access tokens the server hands out (login response, refresh response).
AccessTokens == {"a1", "a2"}

\* Refresh tokens the server hands out (login response).
RefreshTokens == {"r1"}

Users == {"u1"}

\* Endpoints the pages call through axiosInstance.
LoginEndpoint == "/login/"

ResourceEndpoint == "/artist_availability/"

Endpoints == {LoginEndpoint, ResourceEndpoint}

\* The registration form posts to its own endpoint.
RegisterEndpoint == "/register/"

\* The endpoints of the two public forms.
FormEndpoints == {LoginEndpoint, RegisterEndpoint}

\* error.response?.status === 401
Unauthorized == 401

\* error.response is undefined (timeout, network unreachable): no status.
NoStatus == 0

\* A config on which no Authorization header is set.
NoHeader == <<>>

\* A failure status other than 401 (validation error, server error).
OtherStatuses == {500}

\* `Bearer ${token}`
Bearer(token) == <<"Bearer", token>>

\* ------------------------------------------------------------ auth store
\* The store of ../store/authStore (zustand, persisted).
EmptySession ==
    [user |-> Absent, accessToken |-> Absent, refreshToken |-> Absent,
     isAuthenticated |-> FALSE]

setAuth(user, accessToken, refreshToken) ==
    [user |-> user, accessToken |-> accessToken, refreshToken |-> refreshToken,
     isAuthenticated |-> TRUE]

updateAccessToken(s, accessToken) ==
    [s EXCEPT !.accessToken = accessToken]

clearAuth(s) == EmptySession

logoutStore(s) == EmptySession

\* JSON has no undefined: an absent field is written as null.
Null == "null"

ToJson(v) == IF v = Absent THEN Null ELSE v

FromJson(j) == IF j = Null THEN Absent ELSE j

\* Mutant: the persisted record leaves out accessToken.
Serialize_WithoutAccessToken(s) ==
    [state |-> [user |-> ToJson(s.user), accessToken |-> Null,
                refreshToken |-> ToJson(s.refreshToken),
                isAuthenticated |-> s.isAuthenticated],
     version |-> 0]

\* The durable-storage record the persist middleware writes for session s.
Serialize(s) ==
    [state |-> [user |-> ToJson(s.user), accessToken |-> ToJson(s.accessToken),
                refreshToken |-> ToJson(s.refreshToken),
                isAuthenticated |-> s.isAuthenticated],
     version |-> 0]

\* The session the store rehydrates from a durable-storage record.
Deserialize(record) ==
    [user |-> FromJson(record.state.user),
     accessToken |-> FromJson(record.state.accessToken),
     refreshToken |-> FromJson(record.state.refreshToken),
     isAuthenticated |-> record.state.isAuthenticated]

\* ------------------------------------------------------------ interceptors
\* Mutant: the header is set without the `if (accessToken)` test.
AuthenticateRequest_Unconditional(s, authorization) ==
    Bearer(s.accessToken)

\* Mutant: the interceptor reads refreshToken from the store.
AuthenticateRequest_RefreshToken(s, authorization) ==
    IF s.refreshToken # Absent THEN Bearer(s.refreshToken) ELSE authorization

\* Request interceptor: the Authorization header of the outgoing config.
AuthenticateRequest(s, authorization) ==
    IF s.accessToken # Absent THEN Bearer(s.accessToken) ELSE authorization

\* Mutant: the `!originalRequest._retry` test is missing.
ShouldRefresh_NoRetryTest(status, retry) ==
    status = Unauthorized

\* Mutant: the status test is missing, every error enters the flow once.
ShouldRefresh_NoStatusTest(status, retry) ==
    ~retry

\* Mutant: every HTTP failure status enters the flow.
ShouldRefresh_AnyFailureStatus(status, retry) ==
    status >= 400 /\ ~retry

\* The guard of the refresh flow in the response error handler.
ShouldRefresh(status, retry) ==
    status = Unauthorized /\ ~retry

\* Mutant: the `if (!refreshToken)` early return is missing.
NoRefreshToken_Never(s) == FALSE

\* if (!refreshToken)
NoRefreshToken(s) == s.refreshToken = Absent

\* The value sent under the key `refresh` in the body of the refresh call.
RefreshBody(s) == s.refreshToken

\* originalRequest.headers.Authorization = `Bearer ${data.access}`
StampAuthorization(access) == Bearer(access)

\* Mutant: the handler stores the new token with setAuth and no user.
SessionAfterRefresh_ViaSetAuth(s, access) ==
    setAuth(Absent, access, s.refreshToken)

\* Mutant: updateAccessToken(data.access) is not called.
SessionAfterRefresh_NotWritten(s, access) == s

\* updateAccessToken(data.access): the store after a successful refresh.
SessionAfterRefresh(s, access) == updateAccessToken(s, access)

\* Mutant: axiosInstance(originalRequest) runs before updateAccessToken.
ReplayStore_BeforeUpdate(s, access) == s

\* The store the request interceptor of the replay reads: the replay is
\* dispatched after updateAccessToken has returned.
ReplayStore(s, access) == SessionAfterRefresh(s, access)

\* Mutant: the redirect is made without clearAuth().
Terminate_RedirectOnly(s) == s

\* clearAuth(); window.location.href = "/login": the store it leaves.
Terminate(s) == clearAuth(s)

\* How a refresh call can fail: the endpoint rejects the refresh token, or
\* no response arrives (network failure).
RefreshFailures == {"rejected", "unreachable"}

\* The error object axios builds for attempt `attempt` of request r.
RequestError(r, attempt, status) ==
    [type |-> "error", req |-> r, attempt |-> attempt, status |-> status]

\* The error the refresh call (plain axios.post) rejects with.
RefreshError ==
    [type |-> "refreshError", req |-> 0, attempt |-> 0, status |-> NoStatus]

\* The response object of attempt `attempt` of request r.
Response(r, attempt) ==
    [type |-> "response", req |-> r, attempt |-> attempt, status |-> 200]

\* The caller's promise has not settled yet.
Pending == [type |-> "pending", req |-> 0, attempt |-> 0, status |-> NoStatus]

\* Mutant: setAuth(userObj, refresh, access).
LoginSession_Swapped(user, access, refresh) == setAuth(user, refresh, access)

\* setAuth(userObj, access, refresh) in Login.onSubmit.
LoginSession(user, access, refresh) == setAuth(user, access, refresh)

\* Mutant: `catch (e) { ...; return Promise.reject(e) }`.
RefreshFailureRejection_RefreshError(error, refreshError) == refreshError

\* catch { ...; return Promise.reject(error) }: what the handler rejects with
\* when the refresh call failed.
RefreshFailureRejection(error, refreshError) == error

\* setAuth(userObj, access, refresh) in Register.onSubmit.
RegisterSession(user, access, refresh) == setAuth(user, access, refresh)

\* Mutant: the refresh call is made with axiosInstance.post.
RefreshCallIntercepted_Instance == TRUE

\* The refresh call is made with plain axios.post: the interceptors of
\* axiosInstance do not run on its request or on its failure.
RefreshCallIntercepted == FALSE

\* Mutant: `if (access || refresh)`.
HasTokens_Either(access, refresh) == access # Absent \/ refresh # Absent

\* Mutant: `if (access)`.
HasTokens_AccessOnly(access, refresh) == access # Absent

\* if (access && refresh) in Login.onSubmit
HasTokens(access, refresh) == access # Absent /\ refresh # Absent

\* ------------------------------------------------------------------ state
VARIABLES
    session,      \* useAuthStore.getState()
    storage,      \* the localStorage record of the persisted store
    req,          \* per request: the config, its position, what the caller got
    sent,         \* every dispatch through axiosInstance so far
    observed,     \* requests whose 401 entered the refresh flow, in order
    replayed,     \* requests the handler re-sent, in order
    refreshCalls, \* number of POST /refresh/ calls made so far
    redirects     \* number of window.location.href = "/login" assignments

vars == <<session, storage, req, sent, observed, replayed, refreshCalls, redirects>>

\* pc: "new" (not issued), "sent" (on the wire), "refreshing" (the handler
\* awaits its refresh call), "done" (the caller's promise settled).
\* refresh: how the refresh call made for the request ended, "none" before.
NewRequest ==
    [pc |-> "new", url |-> Absent, retry |-> FALSE, sends |-> 0,
     body |-> Absent, refresh |-> "none", outcome |-> Pending]

\* A store operation: the new session is set and persisted in one step.
Commit(s) ==
    /\ session' = s
    /\ storage' = Serialize(s)

\* The store is rehydrated from localStorage: nothing stored, or the session
\* an earlier setAuth stored.
Init ==
    /\ session \in {EmptySession}
                   \cup {setAuth(u, "a1", t) : u \in Users, t \in RefreshTokens}
    /\ storage = Serialize(session)
    /\ req = [r \in Reqs |-> NewRequest]
    /\ sent = {}
    /\ observed = <<>>
    /\ replayed = <<>>
    /\ refreshCalls = 0
    /\ redirects = 0

\* One dispatch through axiosInstance under store state s: the request
\* interceptor runs on the config (whose Authorization header is `before`)
\* and the request goes on the wire.
Dispatch(s, r, attempt, before) ==
    [req |-> r, attempt |-> attempt, store |-> s.accessToken, before |-> before,
     authorization |-> AuthenticateRequest(s, before)]

\* Login: `loading` is true from onSubmit until its finally block, and the
\* submit button is disabled meanwhile.
LoginLoading ==
    \E q \in Reqs : req[q].url = LoginEndpoint /\ req[q].pc \in {"sent", "refreshing"}

\* Register: the same `loading` flag on the registration form.
RegisterLoading ==
    \E q \in Reqs : req[q].url = RegisterEndpoint /\ req[q].pc \in {"sent", "refreshing"}

\* A page calls axiosInstance.post(url, ...) / axiosInstance.get(url).
\* Requests are numbered in the order the pages issue them.
Issue(r, url) ==
    /\ req[r].pc = "new"
    /\ \A q \in Reqs : q < r => req[q].pc # "new"
    /\ url = LoginEndpoint => ~LoginLoading
    /\ url = RegisterEndpoint => ~RegisterLoading
    /\ req' = [req EXCEPT ![r] =
                  [@ EXCEPT !.pc = "sent", !.url = url, !.sends = 1]]
    /\ sent' = sent \cup {Dispatch(session, r, 1, NoHeader)}
    /\ UNCHANGED <<session, storage, observed, replayed, refreshCalls, redirects>>

\* The caller's promise of r settles with `outcome`.
Settle(r, outcome) ==
    [req EXCEPT ![r] = [@ EXCEPT !.pc = "done", !.outcome = outcome]]

\* (response) => response, for a request of a resource page.
ResourceSuccess(r) ==
    /\ req[r].pc = "sent"
    /\ req[r].url = ResourceEndpoint
    /\ req' = Settle(r, Response(r, req[r].sends))
    /\ UNCHANGED <<session, storage, sent, observed, replayed, refreshCalls, redirects>>

\* (response) => response, then Login.onSubmit reads response.data.
LoginSuccess(r, user, access, refresh) ==
    /\ req[r].pc = "sent"
    /\ req[r].url = LoginEndpoint
    /\ req' = Settle(r, Response(r, req[r].sends))
    /\ IF HasTokens(access, refresh)
       THEN Commit(LoginSession(user, access, refresh))
       ELSE UNCHANGED <<session, storage>>
    /\ UNCHANGED <<sent, observed, replayed, refreshCalls, redirects>>

\* (response) => response, then Register.onSubmit reads response.data; without
\* both tokens it only navigates to the login page.
RegisterSuccess(r, user, access, refresh) ==
    /\ req[r].pc = "sent"
    /\ req[r].url = RegisterEndpoint
    /\ req' = Settle(r, Response(r, req[r].sends))
    /\ IF HasTokens(access, refresh)
       THEN Commit(RegisterSession(user, access, refresh))
       ELSE UNCHANGED <<session, storage>>
    /\ UNCHANGED <<sent, observed, replayed, refreshCalls, redirects>>

\* async (error) => {...}: the response error handler, up to its await.
ResponseError(r, status) ==
    LET error == RequestError(r, req[r].sends, status) IN
    /\ req[r].pc = "sent"
    /\ IF ShouldRefresh(status, req[r].retry)
       THEN /\ observed' = Append(observed, r)
            /\ IF NoRefreshToken(session)
               THEN /\ Commit(Terminate(session))
                    /\ redirects' = redirects + 1
                    /\ req' = [req EXCEPT ![r] =
                                  [@ EXCEPT !.retry = TRUE, !.pc = "done",
                                            !.outcome = error]]
                    /\ UNCHANGED refreshCalls
               ELSE /\ req' = [req EXCEPT ![r] =
                                  [@ EXCEPT !.retry = TRUE, !.pc = "refreshing",
                                            !.body = RefreshBody(session),
                                            !.refresh = "pending"]]
                    /\ refreshCalls' = refreshCalls + 1
                    /\ UNCHANGED <<session, storage, redirects>>
       ELSE /\ req' = Settle(r, error)
            /\ UNCHANGED <<session, storage, observed, refreshCalls, redirects>>
    /\ UNCHANGED <<sent, replayed>>

\* The server answers 401.
Respond401(r) == ResponseError(r, Unauthorized)

\* The server answers another failure status.
RespondOther(r, status) == ResponseError(r, status)

\* No response at all: timeout (30 s) or network failure.
TransportFailure(r) == ResponseError(r, NoStatus)

\* The refresh call resolves with { access }: the try block after the await.
RefreshSucceeds(r, access) ==
    /\ req[r].pc = "refreshing"
    /\ Commit(SessionAfterRefresh(session, access))
    /\ req' = [req EXCEPT ![r] =
                  [@ EXCEPT !.pc = "sent", !.sends = @ + 1, !.refresh = "resolved"]]
    /\ sent' = sent \cup {Dispatch(ReplayStore(session, access), r, req[r].sends + 1,
                                   StampAuthorization(access))}
    /\ replayed' = Append(replayed, r)
    /\ UNCHANGED <<observed, refreshCalls, redirects>>

\* The refresh call rejects (any status, or no response): the catch block.
\* Were the refresh call sent through an intercepted client, a 401 answered
\* to it would enter the response error handler with a fresh config and start
\* a refresh call of its own.
RefreshFails(r, how) ==
    /\ req[r].pc = "refreshing"
    /\ IF RefreshCallIntercepted /\ how = "rejected"
       THEN /\ refreshCalls' = refreshCalls + 1
            /\ UNCHANGED <<session, storage, req, redirects>>
       ELSE /\ Commit(Terminate(session))
            /\ redirects' = redirects + 1
            /\ req' = [req EXCEPT ![r] =
                          [@ EXCEPT !.pc = "done", !.refresh = how,
                                    !.outcome = RefreshFailureRejection(
                                        RequestError(r, req[r].sends, Unauthorized),
                                        RefreshError)]]
            /\ UNCHANGED refreshCalls
    /\ UNCHANGED <<sent, observed, replayed>>

\* useAuth().logout, from a page behind ProtectedRoute.
Logout ==
    /\ session.isAuthenticated
    /\ Commit(logoutStore(session))
    /\ UNCHANGED <<req, sent, observed, replayed, refreshCalls, redirects>>

\* No request of the page is in flight and no handler awaits a refresh call.
Quiet == \A r \in Reqs : req[r].pc \in {"new", "done"}

\* The page is reloaded between operations: the store is rehydrated from
\* the durable-storage record.
Reload ==
    /\ Quiet
    /\ session' = Deserialize(storage)
    /\ UNCHANGED <<storage, req, sent, observed, replayed, refreshCalls, redirects>>

Next ==
    \/ \E r \in Reqs : \E url \in Endpoints : Issue(r, url)
    \/ \E r \in Reqs : ResourceSuccess(r)
    \/ \E r \in Reqs : \E u \in Users :
          \E a \in AccessTokens \cup {Absent} : \E t \in RefreshTokens \cup {Absent} :
             LoginSuccess(r, u, a, t)
    \/ \E r \in Reqs : Respond401(r)
    \/ \E r \in Reqs : \E status \in OtherStatuses : RespondOther(r, status)
    \/ \E r \in Reqs : TransportFailure(r)
    \/ \E r \in Reqs : \E a \in AccessTokens : RefreshSucceeds(r, a)
    \/ \E r \in Reqs : \E how \in RefreshFailures : RefreshFails(r, how)
    \/ Logout
    \/ Reload

Spec == Init /\ [][Next]_vars

\* ------------------------------------------------------------------ timeouts
\* A request on the wire gets an answer or its timer fires: axiosInstance is
\* created with timeout: 30000, so one of these steps happens.
Answer(r) ==
    \/ ResourceSuccess(r)
    \/ \E u \in Users :
          \E a \in AccessTokens \cup {Absent} : \E t \in RefreshTokens \cup {Absent} :
             LoginSuccess(r, u, a, t)
    \/ Respond401(r)
    \/ \E status \in OtherStatuses : RespondOther(r, status)
    \/ TransportFailure(r)

\* The refresh call is made with plain axios.post, which has no timeout: no
\* step of RefreshSucceeds or RefreshFails is guaranteed to happen.
SpecLive == Init /\ [][Next]_vars /\ \A r \in Reqs : WF_vars(Answer(r))

\* ------------------------------------------------- concurrent batch of requests
\* The scenario of the single-flight law: a logged-in session, all requests
\* issued before any response arrives, every one of them answered 401 before
\* any refresh call completes.
InitBatch == Init /\ session.isAuthenticated

AllIssued == \A r \in Reqs : req[r].pc # "new"

AllObserved == \A r \in Reqs : req[r].retry

NextBatch ==
    \/ \E r \in Reqs : Issue(r, ResourceEndpoint)
    \/ \E r \in Reqs : AllIssued /\ Respond401(r)
    \/ \E r \in Reqs : \E a \in AccessTokens : AllObserved /\ RefreshSucceeds(r, a)
    \/ \E r \in Reqs : req[r].sends = 2 /\ ResourceSuccess(r)

SpecBatch == InitBatch /\ [][NextBatch]_vars

\* ------------------------------------------------------------ the public forms
\* The login and registration pages: every request is a form submission.
NextForms ==
    \/ \E r \in Reqs : \E url \in FormEndpoints : Issue(r, url)
    \/ \E r \in Reqs : \E u \in Users :
          \E a \in AccessTokens \cup {Absent} : \E t \in RefreshTokens \cup {Absent} :
             LoginSuccess(r, u, a, t)
    \/ \E r \in Reqs : \E u \in Users :
          \E a \in AccessTokens \cup {Absent} : \E t \in RefreshTokens \cup {Absent} :
             RegisterSuccess(r, u, a, t)
    \/ \E r \in Reqs : Respond401(r)
    \/ \E r \in Reqs : \E status \in OtherStatuses : RespondOther(r, status)
    \/ \E r \in Reqs : TransportFailure(r)
    \/ \E r \in Reqs : \E a \in AccessTokens : RefreshSucceeds(r, a)
    \/ \E r \in Reqs : \E how \in RefreshFailures : RefreshFails(r, how)
    \/ Logout
    \/ Reload

SpecForms == Init /\ [][NextForms]_vars

\* ---------------------------------------------------------------- after logout
\* A logged-in session whose refresh calls all succeed: the session is
\* unauthenticated exactly between a logout and the next setAuth.
NextLogout ==
    \/ \E r \in Reqs : \E url \in Endpoints : Issue(r, url)
    \/ \E r \in Reqs : ResourceSuccess(r)
    \/ \E r \in Reqs : \E u \in Users :
          \E a \in AccessTokens \cup {Absent} : \E t \in RefreshTokens \cup {Absent} :
             LoginSuccess(r, u, a, t)
    \/ \E r \in Reqs : Respond401(r)
    \/ \E r \in Reqs : \E status \in OtherStatuses : RespondOther(r, status)
    \/ \E r \in Reqs : TransportFailure(r)
    \/ \E r \in Reqs : \E a \in AccessTokens : RefreshSucceeds(r, a)
    \/ Logout

SpecLogout == InitBatch /\ [][NextLogout]_vars

\* ------------------------------------------------------------------ claims
\* Requests whose handler awaits its refresh call.
Refreshing == {r \in Reqs : req[r].pc = "refreshing"}

\* Position of request r in the sequence q (0 when absent).
IndexIn(q, r) ==
    IF \E i \in DOMAIN q : q[i] = r
    THEN CHOOSE i \in DOMAIN q : q[i] = r
    ELSE 0

\* C1: at most one refresh call (POST /refresh/) is outstanding in every
\* reachable state, however many 401 responses are handled meanwhile.
C1_SingleFlight == Cardinality(Refreshing) <= 1

\* C2: when all N requests of a concurrent batch were answered 401 and have
\* been re-sent, exactly one refresh call was made in total and every replay
\* carries the access token that one refresh returned.
C2_SingleFlightLaw ==
    (\A r \in Reqs : req[r].sends = 2) =>
        /\ refreshCalls = 1
        /\ \E a \in AccessTokens :
              \A e \in sent : e.attempt = 2 => e.authorization = Bearer(a)

\* C3: each caller-issued request is sent at most twice, the original send
\* plus at most one automatic replay.
C3_AtMostOneRetry ==
    \A r \in Reqs :
        /\ req[r].sends <= 2
        /\ Cardinality({e \in sent : e.req = r}) <= 2

\* C3 witness: a replayed request got a second 401 and was rejected with it.
C3_Witness ==
    \E r \in Reqs :
        /\ req[r].sends = 2
        /\ req[r].pc = "done"
        /\ req[r].outcome = RequestError(r, 2, Unauthorized)

\* C4: when the refresh call of a request fails, the request is rejected with
\* its own original 401 error, not the refresh call's error, and the handler
\* leaves the session cleared: isAuthenticated false, both tokens absent.
C4_RefreshFailure ==
    [][\A r \in Reqs :
          (req[r].pc = "refreshing" /\ req'[r].pc = "done") =>
              /\ req'[r].outcome = RequestError(r, 1, Unauthorized)
              /\ req'[r].outcome # RefreshError
              /\ ~session'.isAuthenticated
              /\ session'.accessToken = Absent
              /\ session'.refreshToken = Absent]_vars

\* C4 witness: a refresh call was made for a request, failed, and the request
\* was rejected with no replay.
C4_Witness ==
    \E r \in Reqs :
        /\ req[r].pc = "done"
        /\ req[r].body # Absent
        /\ req[r].sends = 1
        /\ req[r].outcome.type = "error"
        /\ session = EmptySession

\* C5: a 401 on a not-yet-retried request while the session holds no refresh
\* token makes no refresh call, rejects the request with its 401 error, clears
\* the session and assigns window.location.href once.
C5_NoRefreshToken ==
    [][\A r \in Reqs :
          (/\ req[r].pc = "sent"
           /\ ~req[r].retry
           /\ req'[r].retry
           /\ session.refreshToken = Absent) =>
              /\ refreshCalls' = refreshCalls
              /\ req'[r].body = Absent
              /\ req'[r].pc = "done"
              /\ req'[r].outcome = RequestError(r, req[r].sends, Unauthorized)
              /\ session' = EmptySession
              /\ redirects' = redirects + 1]_vars

\* C5 witness: a request was rejected with its first 401, no refresh call was
\* ever made, the session is clear and the redirect happened.
C5_Witness ==
    \E r \in Reqs :
        /\ req[r].pc = "done"
        /\ req[r].retry
        /\ req[r].body = Absent
        /\ req[r].outcome = RequestError(r, 1, Unauthorized)
        /\ refreshCalls = 0
        /\ redirects = 1
        /\ session = EmptySession

\* C6: a transport failure (no response at all) is rejected to the caller
\* with that error, starts no refresh call and no replay, and leaves the
\* session unchanged.
C6_TransportFailure ==
    [][\A r \in Reqs :
          TransportFailure(r) =>
              /\ req'[r].pc = "done"
              /\ req'[r].outcome = RequestError(r, req[r].sends, NoStatus)
              /\ refreshCalls' = refreshCalls
              /\ sent' = sent
              /\ replayed' = replayed
              /\ session' = session
              /\ redirects' = redirects]_vars

\* C6 witness: a request of a logged-in session ended with a transport error.
C6_Witness ==
    \E r \in Reqs :
        /\ req[r].pc = "done"
        /\ req[r].outcome = RequestError(r, 1, NoStatus)
        /\ session.isAuthenticated
        /\ session.refreshToken # Absent

\* C7: a failure status other than 401 is rejected to the caller with the
\* same error object, starts no refresh call, sets no retry marker and leaves
\* the session unchanged.
C7_OtherFailuresPassThrough ==
    [][\A r \in Reqs : \A status \in OtherStatuses :
          RespondOther(r, status) =>
              /\ req'[r].pc = "done"
              /\ req'[r].outcome = RequestError(r, req[r].sends, status)
              /\ req'[r].retry = req[r].retry
              /\ refreshCalls' = refreshCalls
              /\ sent' = sent
              /\ observed' = observed
              /\ session' = session
              /\ redirects' = redirects]_vars

\* C7 witness: a not-yet-retried request of a logged-in session was rejected
\* with a non-401 failure status.
C7_Witness ==
    \E r \in Reqs : \E status \in OtherStatuses :
        /\ req[r].pc = "done"
        /\ ~req[r].retry
        /\ req[r].outcome = RequestError(r, 1, status)
        /\ session.refreshToken # Absent

\* C8: every dispatch carries Authorization = Bearer <store access token> when
\* the store holds an access token at that moment; when it holds none, the
\* interceptor leaves the header as it was, which is unset on an original send.
C8_RequestAuthenticator ==
    \A e \in sent :
        /\ e.store # Absent => e.authorization = Bearer(e.store)
        /\ e.store = Absent => e.authorization = e.before
        /\ (e.store = Absent /\ e.attempt = 1) => e.authorization = NoHeader

\* C8 witness: one request went out without a header from an empty store and
\* another went out with the store's token.
C8_Witness ==
    /\ \E e \in sent : e.store = Absent /\ e.authorization = NoHeader
    /\ \E e \in sent : e.store # Absent /\ e.authorization = Bearer(e.store)

\* C9: no dispatch carries the refresh token as bearer credential: the header
\* is unset or holds an access token, and the refresh call's body holds the
\* refresh token.
C9_RefreshTokenNeverBearer ==
    /\ \A e \in sent :
          \/ e.authorization = NoHeader
          \/ \E a \in AccessTokens : e.authorization = Bearer(a)
    /\ \A e \in sent : \A t \in RefreshTokens : e.authorization # Bearer(t)
    /\ \A r \in Reqs : req[r].body # Absent => req[r].body \in RefreshTokens

\* C9 witness: a refresh call carried the refresh token in its body and the
\* replay that followed carried an access token.
C9_Witness ==
    \E r \in Reqs :
        /\ req[r].body \in RefreshTokens
        /\ \E e \in sent :
              /\ e.req = r
              /\ e.attempt = 2
              /\ \E a \in AccessTokens : e.authorization = Bearer(a)

\* C10: replays are dispatched in the order in which the 401 failures were
\* observed.
C10_ReplayOrder ==
    \A i, j \in DOMAIN replayed :
        i < j => IndexIn(observed, replayed[i]) < IndexIn(observed, replayed[j])

\* The header a dispatch carries when the store holds access token `token`.
HeaderFor(token) == IF token # Absent THEN Bearer(token) ELSE NoHeader

\* C11: every dispatch, replays included, carries exactly the access token
\* the store holds when the handler that dispatched it has run, whatever
\* logins, logouts, clears and refresh completions came before.
C11_NoStaleToken ==
    [][\A e \in sent' \ sent :
          /\ e.authorization = HeaderFor(session'.accessToken)
          /\ e.store = session'.accessToken]_vars

\* C11 witness: a request first sent with a1 was replayed with a2, the token
\* the store holds after the refresh.
C11_Witness ==
    \E r \in Reqs : \E e1, e2 \in sent :
        /\ e1.req = r /\ e1.attempt = 1 /\ e1.authorization = Bearer("a1")
        /\ e2.req = r /\ e2.attempt = 2 /\ e2.authorization = Bearer("a2")
        /\ req[r].pc = "sent"
        /\ session.accessToken = "a2"

\* C12: the token a refresh call returned is in the store when the replay is
\* dispatched, and the outcome of a replay settles the request it belongs to
\* and no other request.
C12_UpdateBeforeReplay ==
    /\ [](\A e \in sent :
            e.attempt = 2 =>
                /\ e.store # Absent
                /\ e.before = Bearer(e.store)
                /\ e.authorization = Bearer(e.store))
    /\ [][\A r \in Reqs :
            (req[r].pc = "sent" /\ req[r].sends = 2 /\ req'[r].pc = "done") =>
                /\ req'[r].outcome.req = r
                /\ req'[r].outcome.attempt = 2
                /\ \A q \in Reqs \ {r} : req'[q] = req[q]]_vars

\* C12 witness: two replayed requests ended differently, one with a response
\* and one with an error.
C12_Witness ==
    \E r, q \in Reqs :
        /\ req[r].pc = "done" /\ req[r].outcome = Response(r, 2)
        /\ req[q].pc = "done" /\ req[q].outcome.type = "error"
        /\ req[q].outcome.attempt = 2

\* C13: a 401 on a request that was already retried is rejected to the caller
\* with that error: no replay, no refresh call, the session untouched.
C13_SecondUnauthorizedIsFinal ==
    [][\A r \in Reqs :
          (Respond401(r) /\ req[r].retry) =>
              /\ req'[r].pc = "done"
              /\ req'[r].outcome = RequestError(r, req[r].sends, Unauthorized)
              /\ sent' = sent
              /\ replayed' = replayed
              /\ refreshCalls' = refreshCalls
              /\ redirects' = redirects
              /\ session' = session]_vars

\* C13 witness: a replay was answered 401 and rejected while the session stayed
\* logged in and only the one refresh call had been made.
C13_Witness ==
    \E r \in Reqs :
        /\ req[r].pc = "done"
        /\ req[r].refresh = "resolved"
        /\ req[r].outcome = RequestError(r, 2, Unauthorized)
        /\ refreshCalls = 1
        /\ redirects = 0
        /\ session.isAuthenticated

\* C14: the session is cleared and the redirect signalled only when a 401 is
\* handled with no refresh token or when the refresh endpoint rejects the
\* refresh; no transport failure does it.
C14_GateOnlyOnAuthFailure ==
    [][redirects' > redirects =>
          \E r \in Reqs :
              \/ /\ req[r].pc = "sent"
                 /\ ~req[r].retry
                 /\ req'[r].retry
                 /\ session.refreshToken = Absent
                 /\ req'[r].outcome.status = Unauthorized
              \/ /\ req[r].pc = "refreshing"
                 /\ req'[r].refresh = "rejected"]_vars

\* C15: isAuthenticated is true exactly when both tokens are present.
C15_AuthenticatedIffBothTokens ==
    session.isAuthenticated <=>
        (session.accessToken # Absent /\ session.refreshToken # Absent)

\* C15 witness: a refresh call completed after the session was cleared: the
\* store holds an access token, no refresh token, and is not authenticated.
C15_Witness ==
    /\ session.accessToken # Absent
    /\ session.refreshToken = Absent
    /\ ~session.isAuthenticated

\* C16: every request issued through the client eventually settles.
C16_EventuallySettles ==
    \A r \in Reqs : (req[r].pc = "sent") ~> (req[r].pc = "done")

\* C17: after Login calls setAuth(user, a, r) the store holds
\* {user, a, r, isAuthenticated: true}, and the durable record rehydrates to
\* the same session.
C17_PersistenceRoundTrip ==
    [][\A r \in Reqs : \A u \in Users :
          \A a \in AccessTokens : \A t \in RefreshTokens :
              LoginSuccess(r, u, a, t) =>
                  /\ session' = [user |-> u, accessToken |-> a, refreshToken |-> t,
                                 isAuthenticated |-> TRUE]
                  /\ Deserialize(storage') = session']_vars

\* C17 witness: a login answered with a2 and r1 established the session and
\* the durable record holds it.
C17_Witness ==
    \E r \in Reqs :
        /\ req[r].url = LoginEndpoint
        /\ req[r].outcome.type = "response"
        /\ refreshCalls = 0
        /\ session = setAuth("u1", "a2", "r1")
        /\ Deserialize(storage) = session

\* C18: the store update after a successful refresh replaces the access token
\* and leaves the refresh token and the user as they were.
C18_UpdateAccessTokenFrame ==
    [][\A r \in Reqs :
          (req[r].pc = "refreshing" /\ req'[r].refresh = "resolved") =>
              /\ session'.refreshToken = session.refreshToken
              /\ session'.user = session.user
              /\ \E e \in sent' \ sent : e.before = Bearer(session'.accessToken)]_vars

\* C18 witness: a refresh replaced a1 by a2 in a logged-in session.
C18_Witness ==
    /\ replayed # <<>>
    /\ session = setAuth("u1", "a2", "r1")
    /\ \E e \in sent : e.attempt = 1 /\ e.store = "a1"

\* C19: every Session Gate termination leaves the empty unauthenticated
\* session, also when the session was already clear.
C19_TerminationIdempotent ==
    [][redirects' > redirects =>
          /\ session' = EmptySession
          /\ (session = EmptySession => session' = session)]_vars

\* C19 witness: two terminations happened, the second on a clear session.
C19_Witness ==
    /\ redirects = 2
    /\ session = EmptySession
    /\ \A r \in Reqs : req[r].pc = "done"

\* C20: the durable-storage record always rehydrates to the in-memory session.
C20_StorageMirrorsSession ==
    Deserialize(storage) = session

\* C20 witness: the durable record holds the access token a refresh returned.
C20_Witness ==
    /\ replayed # <<>>
    /\ storage.state.accessToken = "a2"
    /\ storage.state.refreshToken = "r1"
    /\ \E e \in sent : e.attempt = 1 /\ e.store = "a1" /\ e.req = replayed[1]

\* Requests whose first 401 entered the response error handler.
Received401 == {r \in Reqs : req[r].retry}

\* Requests for which the handler made a refresh call.
MadeRefreshCall == {r \in Reqs : req[r].refresh # "none"}

\* C21: a 401 answered to a login or registration submission is handed to the
\* caller as it is: no refresh call is made, the session is not touched and
\* no redirect to the login page is signalled.
C21_FormsBypassRefresh ==
    [][\A r \in Reqs :
          (req[r].url \in FormEndpoints /\ Respond401(r)) =>
              /\ refreshCalls' = refreshCalls
              /\ session' = session
              /\ redirects' = redirects
              /\ req'[r].outcome = RequestError(r, req[r].sends, Unauthorized)]_vars

\* C22: a successful login or registration response calls setAuth exactly
\* when it carries both an access and a refresh token; otherwise the session
\* stays as it was.
C22_SessionIffBothTokens ==
    [][\A r \in Reqs : \A u \in Users :
          \A a \in AccessTokens \cup {Absent} : \A t \in RefreshTokens \cup {Absent} :
              (LoginSuccess(r, u, a, t) \/ RegisterSuccess(r, u, a, t)) =>
                  IF a # Absent /\ t # Absent
                  THEN session' = [user |-> u, accessToken |-> a, refreshToken |-> t,
                                   isAuthenticated |-> TRUE]
                  ELSE session' = session /\ storage' = storage]_vars

\* C22 witness: a registration answered without tokens left the session
\* empty, and a login answered with a2 and r1 then established it.
C22_Witness ==
    \E r, q \in Reqs :
        /\ r < q
        /\ req[r].url = RegisterEndpoint
        /\ req[r].outcome.type = "response"
        /\ Cardinality({e \in sent : e.authorization # NoHeader}) = 0
        /\ req[q].url = LoginEndpoint
        /\ req[q].outcome.type = "response"
        /\ session = setAuth("u1", "a2", "r1")
        /\ refreshCalls = 0

\* C23: logout leaves the empty session, and between a logout and the next
\* setAuth no request is dispatched with an Authorization header.
C23_NoHeaderAfterLogout ==
    [][/\ Logout => session' = EmptySession
       /\ (~session.isAuthenticated /\ ~session'.isAuthenticated) =>
              \A e \in sent' \ sent : e.authorization = NoHeader]_vars

\* C24: an absent access token stays absent until setAuth establishes a
\* session again; a refresh call completing after the clear writes nothing.
C24_ClearedStaysCleared ==
    [][(session.accessToken = Absent /\ session'.accessToken # Absent) =>
          /\ session'.isAuthenticated
          /\ session'.refreshToken # Absent
          /\ \E r \in Reqs : req[r].url = LoginEndpoint /\ req'[r].pc = "done"
                             /\ req[r].pc = "sent"]_vars

\* C25: no dispatch carries a bearer header while the store holds no access
\* token, neither at the moment of the dispatch nor when the handler that
\* replays the request resumes on a cleared store.
C25_NoBearerWithoutToken ==
    [][\A e \in sent' \ sent :
          /\ e.store = Absent => e.authorization = NoHeader
          /\ session.accessToken = Absent => e.authorization = NoHeader]_vars

\* C26: a failed replay is handed to the caller with its own error, the
\* session and the redirect count untouched; the handler terminates the
\* session only when its refresh call failed or no refresh token was stored.
C26_ReplayFailurePassesThrough ==
    [][/\ \A r \in Reqs :
             (/\ req[r].pc = "sent"
              /\ req[r].sends = 2
              /\ req'[r].pc = "done"
              /\ req'[r].outcome.type = "error") =>
                 /\ session' = session
                 /\ redirects' = redirects
                 /\ req'[r].outcome.req = r
                 /\ req'[r].outcome.attempt = 2
       /\ redirects' > redirects =>
             \E r \in Reqs :
                \/ req[r].pc = "refreshing" /\ req'[r].refresh \in RefreshFailures
                \/ /\ req[r].pc = "sent"
                   /\ ~req[r].retry
                   /\ req'[r].retry
                   /\ session.refreshToken = Absent]_vars

\* C26 witness: a replay was answered 500 and the caller got that error while
\* the session stayed logged in and no redirect was signalled.
C26_Witness ==
    \E r \in Reqs :
        /\ req[r].pc = "done"
        /\ req[r].outcome = RequestError(r, 2, 500)
        /\ session.isAuthenticated
        /\ session.accessToken = "a2"
        /\ redirects = 0

\* C27: a failed refresh call starts no further refresh call: it terminates
\* the session and settles the request, which is never sent again.
C27_RefreshFailureIsFinal ==
    [][\A r \in Reqs :
          /\ \A how \in RefreshFailures :
                RefreshFails(r, how) =>
                    /\ refreshCalls' = refreshCalls
                    /\ session' = EmptySession
                    /\ redirects' = redirects + 1
                    /\ sent' = sent
          /\ req'[r].refresh \in RefreshFailures =>
                /\ req'[r].pc = "done"
                /\ req'[r].sends = 1]_vars

\* C27 witness: the refresh endpoint rejected the only refresh call made and
\* the session was terminated once.
C27_Witness ==
    \E r \in Reqs :
        /\ req[r].refresh = "rejected"
        /\ req[r].pc = "done"
        /\ refreshCalls = 1
        /\ redirects = 1
        /\ session = EmptySession

\* C28: every request makes at most one refresh call, so the number of
\* refresh calls never exceeds the number of requests that received a 401.
C28_OneRefreshPerRequest ==
    /\ refreshCalls = Cardinality(MadeRefreshCall)
    /\ MadeRefreshCall \subseteq Received401
    /\ refreshCalls <= Cardinality(Received401)

\* C28 witness: two requests received a 401, one refresh call was made, and
\* the request that made it was replayed and answered 401 again.
C28_Witness ==
    /\ Cardinality(Received401) = 2
    /\ refreshCalls = 1
    /\ \E r \in Reqs : req[r].outcome = RequestError(r, 2, Unauthorized)
====
